---- MODULE Spec2Model ----
(***************************************************************************)
(* minigrep (Chapter-12/minigrep): the search library (src/lib.rs) and the *)
(* command-line binary (src/main.rs).                                      *)
(*                                                                         *)
(* A Rust string is modelled as the sequence of its Unicode scalar values  *)
(* (natural numbers).  str::contains compares UTF-8 bytes; UTF-8 is        *)
(* self-synchronising, so byte containment of valid strings coincides with *)
(* containment of scalar-value sequences.                                  *)
(*                                                                         *)
(* Two specifications:                                                     *)
(*   SpecSearch  the library functions search / search_case_insensitive    *)
(*               called directly on inputs drawn from bounded sets and on  *)
(*               the inputs of the unit tests in mod tests;                *)
(*   Spec        the binary: main -> Config::build -> run.                 *)
(***************************************************************************)
EXTENDS Integers, Sequences, FiniteSets, TLC

VARIABLES
    \* ---- library called directly (SpecSearch) ----
    query,          \* the query argument
    contents,       \* the contents argument
    s_called,       \* search(query, contents) has returned
    s_res,          \* its result
    ci_called,      \* search_case_insensitive(query, contents) has returned
    ci_res,         \* its result
    \* ---- the binary (Spec) ----
    pc,             \* position of main / run
    args,           \* env::args(): sequence of strings
    env_IGNORE_CASE,\* the IGNORE_CASE entry of the process environment
    fs,             \* outcome of fs::read_to_string for the path "f"
    config,         \* the Config built by Config::build
    file_text,      \* file_text in run
    file_read,      \* fs::read_to_string has been called
    called,         \* which search function run called
    res,            \* res in run
    printed,        \* number of elements of res already printed
    run_result,     \* what run returned to main
    stdout,         \* lines written by println!
    stderr,         \* messages written by eprintln!
    exit_code       \* process exit status (-1 while running)

libvars == <<query, contents, s_called, s_res, ci_called, ci_res>>
binvars == <<pc, args, env_IGNORE_CASE, fs, config, file_text, file_read,
             called, res, printed, run_result, stdout, stderr, exit_code>>
vars == <<query, contents, s_called, s_res, ci_called, ci_res,
          pc, args, env_IGNORE_CASE, fs, config, file_text, file_read,
          called, res, printed, run_result, stdout, stderr, exit_code>>

----------------------------------------------------------------------------
(* Characters *)

LF == 10
CR == 13
UpperA == 65
LowerA == 97
CapitalSigma == 931
SmallSigma == 963
FinalSigma == 962
CapitalIDot == 304
CombiningDot == 775

(* Bounds *)
MaxContentLen == 3
MaxQueryLen == 2
MaxFileLen == 2
MaxArgs == 4

Alphabet == {LF, CR, UpperA, LowerA, CapitalSigma}

Strings(alpha, n) == UNION {[1..k -> alpha] : k \in 0..n}

----------------------------------------------------------------------------
(* Standard-library string operations used by lib.rs *)

Min(S) == CHOOSE m \in S : \A x \in S : m <= x

\* str::split_inclusive('\n'): pieces keep their terminating newline; the
\* empty string has no piece; a final piece without newline is kept.
RECURSIVE split_inclusive(_)
split_inclusive(s) ==
    IF s = <<>> THEN <<>>
    ELSE LET nl == {i \in 1..Len(s) : s[i] = LF} IN
         IF nl = {} THEN <<s>>
         ELSE LET k == Min(nl) IN
              <<SubSeq(s, 1, k)>> \o split_inclusive(SubSeq(s, k + 1, Len(s)))

\* the closure of str::lines: strip one "\n", and then one "\r" only when a
\* "\n" was stripped.
strip_line_ending(piece) ==
    IF Len(piece) > 0 /\ piece[Len(piece)] = LF
    THEN LET l == SubSeq(piece, 1, Len(piece) - 1) IN
         IF Len(l) > 0 /\ l[Len(l)] = CR THEN SubSeq(l, 1, Len(l) - 1) ELSE l
    ELSE piece

\* str::split('\n') with the line ending trimmed: what lines() would be if a
\* final newline opened one more, empty, line.
lines_split(s) ==
    LET nl  == {i \in 1..Len(s) : s[i] = LF}
        n   == Cardinality(nl) + 1
        cut == [k \in 0..n |-> IF k = 0 THEN 0
                               ELSE IF k = n THEN Len(s) + 1
                               ELSE CHOOSE i \in nl :
                                      Cardinality({j \in nl : j <= i}) = k]
    IN  [k \in 1..n |->
           LET l == SubSeq(s, cut[k - 1] + 1, cut[k] - 1) IN
           IF k < n /\ Len(l) > 0 /\ l[Len(l)] = CR
           THEN SubSeq(l, 1, Len(l) - 1) ELSE l]

\* str::lines()
lines(s) ==
    LET pieces == split_inclusive(s) IN
    [i \in 1..Len(pieces) |-> strip_line_ending(pieces[i])]

\* Iterator::enumerate(): pairs (index, item), index counted from 0
enumerate_from1(xs) == [i \in 1..Len(xs) |-> <<i, xs[i]>>]

enumerate(xs) == [i \in 1..Len(xs) |-> <<i - 1, xs[i]>>]

\* str::starts_with
starts_with(hay, needle) ==
    Len(needle) <= Len(hay) /\ SubSeq(hay, 1, Len(needle)) = needle

\* str::contains(&str): needle occurs in hay as a contiguous substring
contains(hay, needle) ==
    \E i \in 0..(Len(hay) - Len(needle)) :
        SubSeq(hay, i + 1, i + Len(needle)) = needle

\* core::unicode::Cased, on the characters the model uses
Cased(c) ==
    \/ c \in 65..90
    \/ c \in 97..122
    \/ c \in {CapitalSigma, SmallSigma, FinalSigma, CapitalIDot}

\* core::unicode::Case_Ignorable, on the characters the model uses:
\* ' . : ^ ` and the combining dot above
Case_Ignorable(c) == c \in {39, 46, 58, 94, 96, CombiningDot}

\* alloc::str::case_ignorable_then_cased: skip case-ignorable characters, then
\* ask whether the next one is cased
RECURSIVE case_ignorable_then_cased(_)
case_ignorable_then_cased(s) ==
    IF s = <<>> THEN FALSE
    ELSE IF Case_Ignorable(s[1]) THEN case_ignorable_then_cased(Tail(s))
    ELSE Cased(s[1])

Reverse(s) == [i \in 1..Len(s) |-> s[Len(s) + 1 - i]]

\* alloc::str::map_uppercase_sigma: Final_Sigma rule for the character at
\* position i (1-based) of from
map_uppercase_sigma(from, i) ==
    LET is_word_final ==
            /\ case_ignorable_then_cased(Reverse(SubSeq(from, 1, i - 1)))
            /\ ~case_ignorable_then_cased(SubSeq(from, i + 1, Len(from)))
    IN  IF is_word_final THEN FinalSigma ELSE SmallSigma

\* core::unicode::conversions::to_lower on the characters the model uses
to_lower(c) ==
    IF c \in 65..90 THEN <<c + 32>>
    ELSE IF c = CapitalIDot THEN <<105, CombiningDot>>
    ELSE <<c>>

RECURSIVE Concat(_)
Concat(ss) == IF ss = <<>> THEN <<>> ELSE Head(ss) \o Concat(Tail(ss))

\* str::to_lowercase
to_lowercase(s) ==
    Concat([i \in 1..Len(s) |->
              IF s[i] = CapitalSigma THEN <<map_uppercase_sigma(s, i)>>
              ELSE to_lower(s[i])])

----------------------------------------------------------------------------
(* lib.rs: the two search functions *)

search_from1(q, c) ==
    SelectSeq(enumerate_from1(lines(c)), LAMBDA p : contains(p[2], q))

search_prefix(q, c) ==
    SelectSeq(enumerate(lines(c)), LAMBDA p : starts_with(p[2], q))

search_nonempty(q, c) ==
    SelectSeq(enumerate(lines(c)), LAMBDA p : q # <<>> /\ contains(p[2], q))

search(q, c) ==
    SelectSeq(enumerate(lines(c)), LAMBDA p : contains(p[2], q))

search_case_insensitive_folded(q, c) ==
    LET lq == to_lowercase(q)
        hits == SelectSeq(enumerate(lines(c)),
                          LAMBDA p : contains(to_lowercase(p[2]), lq))
    IN  [i \in 1..Len(hits) |-> <<hits[i][1], to_lowercase(hits[i][2])>>]

search_case_insensitive(q, c) ==
    LET lq == to_lowercase(q) IN
    SelectSeq(enumerate(lines(c)),
              LAMBDA p : contains(to_lowercase(p[2]), lq))

----------------------------------------------------------------------------
(* mod tests: the inputs of the two unit tests *)

TestContentsSensitive ==
    <<82, 117, 115, 116, 58, 10, 115, 97, 102, 101, 44, 32, 102, 97, 115,
      116, 44, 32, 112, 114, 111, 100, 117, 99, 116, 105, 118, 101, 46, 10,
      80, 105, 99, 107, 32, 116, 104, 114, 101, 101, 46, 10, 68, 117, 99,
      116, 32, 116, 97, 112, 101, 46>>

TestQuerySensitive == <<100, 117, 99, 116>>

TestContentsInsensitive ==
    <<82, 117, 115, 116, 58, 10, 115, 97, 102, 101, 44, 32, 102, 97, 115,
      116, 44, 32, 112, 114, 111, 100, 117, 99, 116, 105, 118, 101, 46, 10,
      80, 105, 99, 107, 32, 116, 104, 114, 101, 101, 46, 10, 84, 114, 117,
      115, 116, 32, 109, 101, 46>>

TestQueryInsensitive == <<114, 85, 115, 84>>

TestInputs ==
    { <<TestQuerySensitive, TestContentsSensitive>>,
      <<TestQueryInsensitive, TestContentsInsensitive>> }

----------------------------------------------------------------------------
(* The binary's values while the library is exercised directly, and the    *)
(* library harness's values while the binary runs.                         *)

NoConfig == [query |-> <<>>, path |-> <<>>, ignore_case |-> FALSE]

BinIdle ==
    /\ pc = "lib"
    /\ args = <<>>
    /\ env_IGNORE_CASE = [kind |-> "NotPresent", val |-> <<>>]
    /\ fs = [ok |-> FALSE, text |-> <<>>, cause |-> "NotFound"]
    /\ config = NoConfig
    /\ file_text = <<>>
    /\ file_read = FALSE
    /\ called = "none"
    /\ res = <<>>
    /\ printed = 0
    /\ run_result = "pending"
    /\ stdout = <<>>
    /\ stderr = <<>>
    /\ exit_code = -1

LibIdle ==
    /\ query = <<>>
    /\ contents = <<>>
    /\ s_called = FALSE
    /\ s_res = <<>>
    /\ ci_called = FALSE
    /\ ci_res = <<>>

----------------------------------------------------------------------------
(* SpecSearch: the library functions called directly *)

InitSearch ==
    /\ \E in \in (Strings(Alphabet, MaxQueryLen)
                    \X Strings(Alphabet, MaxContentLen)) \cup TestInputs :
          /\ query = in[1]
          /\ contents = in[2]
    /\ s_called = FALSE
    /\ s_res = <<>>
    /\ ci_called = FALSE
    /\ ci_res = <<>>
    /\ BinIdle

CallSearch ==
    /\ pc = "lib"
    /\ ~s_called
    /\ s_res' = search(query, contents)
    /\ s_called' = TRUE
    /\ UNCHANGED <<query, contents, ci_called, ci_res>>
    /\ UNCHANGED binvars

CallSearchCaseInsensitive ==
    /\ pc = "lib"
    /\ ~ci_called
    /\ ci_res' = search_case_insensitive(query, contents)
    /\ ci_called' = TRUE
    /\ UNCHANGED <<query, contents, s_called, s_res>>
    /\ UNCHANGED binvars

NextSearch == CallSearch \/ CallSearchCaseInsensitive

SpecSearch == InitSearch /\ [][NextSearch]_vars

----------------------------------------------------------------------------
(* The binary: inputs *)

ProgName == <<109, 103>>            \* "mg"
PathF == <<102>>                    \* "f": the path whose read outcome is fs
PathG == <<103>>                    \* "g": a path that does not exist
FlagU == <<45, 85>>                 \* "-U": an argument after the path
One == <<49>>                       \* "1"

FileAlphabet == {LF, UpperA, LowerA}

BinQueries == {<<>>, <<LowerA>>, <<UpperA>>}

ArgAt(i) ==
    IF i = 1 THEN {ProgName}
    ELSE IF i = 2 THEN BinQueries
    ELSE IF i = 3 THEN {PathF, PathG}
    ELSE {FlagU}

ArgLists ==
    UNION { {a \in [1..k -> {ProgName, PathF, PathG, FlagU} \cup BinQueries] :
                \A i \in 1..k : a[i] \in ArgAt(i)} : k \in 0..MaxArgs }

EnvValues ==
    { [kind |-> "NotPresent", val |-> <<>>],
      [kind |-> "NotUnicode", val |-> <<>>] }
    \cup { [kind |-> "Ok", val |-> v] :
             v \in {One, <<48>>, <<>>, <<49, 49>>, <<116, 114, 117, 101>>} }

\* a file of eleven lines: ten empty ones, then "a" without a final newline
LongFile == <<LF, LF, LF, LF, LF, LF, LF, LF, LF, LF, LowerA>>

ReadOutcomes ==
    { [ok |-> TRUE, text |-> x, cause |-> ""] :
          x \in Strings(FileAlphabet, MaxFileLen) \cup {LongFile} }
    \cup { [ok |-> FALSE, text |-> <<>>, cause |-> c] :
             c \in {"NotFound", "PermissionDenied", "InvalidData"} }

----------------------------------------------------------------------------
(* lib.rs: Config::build *)

\* env::var("IGNORE_CASE").is_ok()
ignore_case_is_ok(env) == env.kind = "Ok"

\* env::var("IGNORE_CASE").is_ok_and(|val| val == "1")
ignore_case_from_env(env) == env.kind = "Ok" /\ env.val = One

\* Config::build with the missing path defaulted to the empty string
Config_build_default_path(a, env) ==
    IF Len(a) < 2
    THEN [ok |-> FALSE, config |-> NoConfig, err |-> "mg: missing query"]
    ELSE [ok |-> TRUE,
          config |-> [query |-> a[2],
                      path |-> IF Len(a) < 3 THEN <<>> ELSE a[3],
                      ignore_case |-> ignore_case_from_env(env)],
          err |-> ""]

\* Config::build: args.next() skips the program name, the next two items
\* are query and path; items after the path are not looked at.
Config_build(a, env) ==
    IF Len(a) < 2
    THEN [ok |-> FALSE, config |-> NoConfig, err |-> "mg: missing query"]
    ELSE IF Len(a) < 3
    THEN [ok |-> FALSE, config |-> NoConfig,
          err |-> "mg: missing text to query"]
    ELSE [ok |-> TRUE,
          config |-> [query |-> a[2], path |-> a[3],
                      ignore_case |-> ignore_case_from_env(env)],
          err |-> ""]

----------------------------------------------------------------------------
(* lib.rs: run *)

\* fs::read_to_string(path).unwrap_or_default()
read_to_string_or_default(path, f) ==
    IF path = PathF /\ f.ok THEN f
    ELSE [ok |-> TRUE, text |-> <<>>, cause |-> ""]

\* fs::read_to_string(path): the outcome for "f" is f, any other path does
\* not exist
read_to_string(path, f) ==
    IF path = PathF THEN f
    ELSE [ok |-> FALSE, text |-> <<>>, cause |-> "NotFound"]

\* usize Display: decimal digits
RECURSIVE Decimal(_)
Decimal(n) ==
    IF n < 10 THEN <<48 + n>> ELSE Decimal(n \div 10) \o <<48 + (n % 10)>>

\* format!("{}:{line}", i): the index printed as it is
format_line_index(p) == Decimal(p[1]) \o <<58>> \o p[2]

\* format!("{}:{line}", i + 1)
format_line(p) == Decimal(p[1] + 1) \o <<58>> \o p[2]

Init ==
    /\ LibIdle
    /\ pc = "build"
    /\ args \in ArgLists
    /\ env_IGNORE_CASE \in EnvValues
    /\ fs \in ReadOutcomes
    /\ config = NoConfig
    /\ file_text = <<>>
    /\ file_read = FALSE
    /\ called = "none"
    /\ res = <<>>
    /\ printed = 0
    /\ run_result = [kind |-> "pending", cause |-> ""]
    /\ stdout = <<>>
    /\ stderr = <<>>
    /\ exit_code = -1

\* main, lines 22-25: Config::build(env::args()).unwrap_or_else(...)
MainBuild ==
    /\ pc = "build"
    /\ LET r == Config_build(args, env_IGNORE_CASE) IN
       IF r.ok
       THEN /\ config' = r.config
            /\ pc' = "run"
            /\ UNCHANGED <<stderr, exit_code>>
       ELSE /\ stderr' = Append(stderr, [fmt |-> "{}", path |-> <<>>,
                                         err |-> r.err])
            /\ exit_code' = 1
            /\ pc' = "exited"
            /\ UNCHANGED config
    /\ UNCHANGED <<args, env_IGNORE_CASE, fs, file_text, file_read, called,
                   res, printed, run_result, stdout>>
    /\ UNCHANGED libvars

\* run, line 4: let file_text = fs::read_to_string(&config.path)?;
RunReadFile ==
    /\ pc = "run"
    /\ file_read' = TRUE
    /\ LET r == read_to_string(config.path, fs) IN
       IF r.ok
       THEN /\ file_text' = r.text
            /\ pc' = "search"
            /\ UNCHANGED run_result
       ELSE /\ run_result' = [kind |-> "Err", cause |-> r.cause]
            /\ pc' = "run_err"
            /\ UNCHANGED file_text
    /\ UNCHANGED <<args, env_IGNORE_CASE, fs, config, called, res, printed,
                   stdout, stderr, exit_code>>
    /\ UNCHANGED libvars

\* run, lines 7-11: let res = if config.ignore_case {..} else {..};
RunSearch ==
    /\ pc = "search"
    /\ IF config.ignore_case
       THEN /\ res' = search_case_insensitive(config.query, file_text)
            /\ called' = "search_case_insensitive"
       ELSE /\ res' = search(config.query, file_text)
            /\ called' = "search"
    /\ printed' = 0
    /\ pc' = "print"
    /\ UNCHANGED <<args, env_IGNORE_CASE, fs, config, file_text, file_read,
                   run_result, stdout, stderr, exit_code>>
    /\ UNCHANGED libvars

\* run, lines 13-14: one step of res.iter().for_each(println!)
RunPrint ==
    /\ pc = "print"
    /\ printed < Len(res)
    /\ stdout' = Append(stdout, format_line(res[printed + 1]))
    /\ printed' = printed + 1
    /\ UNCHANGED <<pc, args, env_IGNORE_CASE, fs, config, file_text,
                   file_read, called, res, run_result, stderr, exit_code>>
    /\ UNCHANGED libvars

\* run, line 16: Ok(())
RunReturnOk ==
    /\ pc = "print"
    /\ printed = Len(res)
    /\ run_result' = [kind |-> "Ok", cause |-> ""]
    /\ pc' = "returned"
    /\ UNCHANGED <<args, env_IGNORE_CASE, fs, config, file_text, file_read,
                   called, res, printed, stdout, stderr, exit_code>>
    /\ UNCHANGED libvars

\* main, lines 27-30: if let Err(e) = run(&config) { eprintln!; exit(1) }
MainRunErr ==
    /\ pc = "run_err"
    /\ stderr' = Append(stderr, [fmt |-> "mg: {}: {}", path |-> config.path,
                                 err |-> run_result.cause])
    /\ exit_code' = 1
    /\ pc' = "exited"
    /\ UNCHANGED <<args, env_IGNORE_CASE, fs, config, file_text, file_read,
                   called, res, printed, run_result, stdout>>
    /\ UNCHANGED libvars

\* main, line 31: falls off the end after run returned Ok
MainExit ==
    /\ pc = "returned"
    /\ exit_code' = 0
    /\ pc' = "exited"
    /\ UNCHANGED <<args, env_IGNORE_CASE, fs, config, file_text, file_read,
                   called, res, printed, run_result, stdout, stderr>>
    /\ UNCHANGED libvars

Next ==
    \/ MainBuild
    \/ RunReadFile
    \/ RunSearch
    \/ RunPrint
    \/ RunReturnOk
    \/ MainRunErr
    \/ MainExit

Spec == Init /\ [][Next]_vars

----------------------------------------------------------------------------
(* Properties of the search functions (checked under SpecSearch) *)

\* the pairs of a result, as a set
Pairs(r) == {r[k] : k \in 1..Len(r)}

\* line numbers strictly increase along a result
Increasing(r) == \A k \in 1..(Len(r) - 1) : r[k][1] < r[k + 1][1]

\* every pair of r is (n, the line at 0-based index n of ls)
ZeroBased(r, ls) ==
    \A k \in 1..Len(r) :
        /\ r[k][1] \in 0..(Len(ls) - 1)
        /\ r[k][2] = ls[r[k][1] + 1]

\* every pair of r is (n, the line at 1-based position n of ls)
OneBased(r, ls) ==
    \A k \in 1..Len(r) :
        /\ r[k][1] \in 1..Len(ls)
        /\ r[k][2] = ls[r[k][1]]

\* The line sequence described in prose: the text between successive
\* newline characters; no line after a final newline; a last line without a
\* newline counts.  With trimCR, one carriage return directly before the
\* newline is not part of the line.
TextBetweenNewlines(s, trimCR) ==
    LET nl  == {i \in 1..Len(s) : s[i] = LF}
        m   == Cardinality(nl)
        n   == IF s # <<>> /\ s[Len(s)] # LF THEN m + 1 ELSE m
        cut == [k \in 0..n |-> IF k = 0 THEN 0
                               ELSE IF k > m THEN Len(s) + 1
                               ELSE CHOOSE i \in nl :
                                      Cardinality({j \in nl : j <= i}) = k]
    IN  [k \in 1..n |->
           LET l == SubSeq(s, cut[k - 1] + 1, cut[k] - 1) IN
           IF trimCR /\ k <= m /\ Len(l) > 0 /\ l[Len(l)] = CR
           THEN SubSeq(l, 1, Len(l) - 1) ELSE l]

\* C1 (as claimed): every (line_number, line) returned by search has line
\* containing query, and line_number is the 1-based position of line in the
\* line sequence of contents.
C1_OneBasedPairs ==
    s_called =>
        /\ \A k \in 1..Len(s_res) : contains(s_res[k][2], query)
        /\ OneBased(s_res, lines(contents))

\* C1 (amended): every (line_number, line) returned by search has line
\* containing query, and line_number is the 0-based index of line in the
\* line sequence of contents.
C1_ZeroBasedPairs ==
    s_called =>
        /\ \A k \in 1..Len(s_res) : contains(s_res[k][2], query)
        /\ ZeroBased(s_res, lines(contents))

C1_Witness ==
    /\ s_called
    /\ query # <<>>
    /\ s_res # <<>>
    /\ s_res[1][1] >= 1
    /\ Len(s_res) < Len(lines(contents))

\* C2: search returns exactly the lines that contain query -- none omitted,
\* none added -- in line order with strictly increasing (hence distinct)
\* line numbers; the result is empty iff no line contains query.
C2_ExactlyMatchingLines ==
    s_called =>
        LET ls == lines(contents) IN
        /\ \A i \in 1..Len(ls) :
              contains(ls[i], query) <=> (\E k \in 1..Len(s_res) :
                                             s_res[k] = <<i - 1, ls[i]>>)
        /\ \A k \in 1..Len(s_res) :
              /\ s_res[k][1] + 1 \in 1..Len(ls)
              /\ s_res[k][2] = ls[s_res[k][1] + 1]
              /\ contains(s_res[k][2], query)
        /\ Increasing(s_res)
        /\ (s_res = <<>>) <=> (\A i \in 1..Len(ls) : ~contains(ls[i], query))

C2_Witness ==
    /\ s_called
    /\ query # <<>>
    /\ s_res # <<>>
    /\ Len(s_res) < Len(lines(contents))
    /\ \E k \in 1..Len(s_res) : ~starts_with(s_res[k][2], query)

\* C3 (as claimed): the line numbers returned by search are among the line
\* numbers returned by search_case_insensitive for the same inputs.
C3_SensitiveWithinInsensitive ==
    (s_called /\ ci_called) =>
        \A k \in 1..Len(s_res) : \E j \in 1..Len(ci_res) :
            ci_res[j][1] = s_res[k][1]

\* C4: search_case_insensitive returns a line exactly when the lowercased
\* line contains the lowercased query; the returned text is the original
\* line, with the number search gives that line.
C4_InsensitiveReturnsOriginal ==
    ci_called =>
        LET ls == lines(contents)
            lq == to_lowercase(query) IN
        /\ \A i \in 1..Len(ls) :
              contains(to_lowercase(ls[i]), lq)
                  <=> (\E k \in 1..Len(ci_res) : ci_res[k][1] = i - 1)
        /\ ZeroBased(ci_res, ls)
        /\ Increasing(ci_res)
        /\ s_called =>
              \A k \in 1..Len(s_res) : \A j \in 1..Len(ci_res) :
                  (ci_res[j][1] = s_res[k][1]) => (ci_res[j] = s_res[k])

C4_Witness ==
    /\ ci_called
    /\ s_called
    /\ \E j \in 1..Len(ci_res) :
          /\ to_lowercase(ci_res[j][2]) # ci_res[j][2]
          /\ ~contains(ci_res[j][2], query)
    /\ \E j \in 1..Len(ci_res) : ci_res[j] \in Pairs(s_res)

\* C5 (as claimed): search("", contents) returns every line of contents
\* once, numbered consecutively from 1; empty contents give an empty result
\* for any query.
C5_EmptyQueryFromOne ==
    s_called =>
        LET ls == lines(contents) IN
        /\ (query = <<>>) => (s_res = [i \in 1..Len(ls) |-> <<i, ls[i]>>])
        /\ (contents = <<>>) => (s_res = <<>>)

\* C5 (amended): search("", contents) returns every line of contents once,
\* numbered consecutively from 0; empty contents give an empty result for
\* any query.
C5_EmptyQueryFromZero ==
    s_called =>
        LET ls == lines(contents) IN
        /\ (query = <<>>) =>
              /\ Len(s_res) = Len(ls)
              /\ \A i \in 1..Len(ls) : s_res[i] = <<i - 1, ls[i]>>
        /\ (contents = <<>>) => (s_res = <<>>)

C5_Witness ==
    /\ s_called
    /\ query = <<>>
    /\ Len(s_res) = 3
    /\ s_res[3][2] # <<>>

\* C6 (as claimed): both functions scan the lines "between successive
\* newline characters": a newline at the very end adds no empty last line,
\* a last line without newline is scanned.
C6_LinesBetweenNewlines ==
    LET ls == TextBetweenNewlines(contents, FALSE) IN
    /\ s_called =>
          Pairs(s_res) = {<<i - 1, ls[i]>> :
                             i \in {j \in 1..Len(ls) : contains(ls[j], query)}}
    /\ ci_called =>
          Pairs(ci_res) =
              {<<i - 1, ls[i]>> :
                  i \in {j \in 1..Len(ls) :
                           contains(to_lowercase(ls[j]), to_lowercase(query))}}

\* C6 (amended): as claimed, except that a carriage return directly before
\* a newline belongs to the line ending and not to the line.
C6_LinesBetweenNewlinesTrimCR ==
    LET ls == TextBetweenNewlines(contents, TRUE) IN
    /\ s_called =>
          Pairs(s_res) = {<<i - 1, ls[i]>> :
                             i \in {j \in 1..Len(ls) : contains(ls[j], query)}}
    /\ ci_called =>
          Pairs(ci_res) =
              {<<i - 1, ls[i]>> :
                  i \in {j \in 1..Len(ls) :
                           contains(to_lowercase(ls[j]), to_lowercase(query))}}

\* a final newline, an empty query: every line returned, no empty last one
C6_Witness ==
    /\ s_called
    /\ ci_called
    /\ query = <<>>
    /\ Len(contents) >= 2
    /\ contents[Len(contents)] = LF
    /\ contents[Len(contents) - 1] # LF
    /\ Len(s_res) = 1
    /\ Len(ci_res) = 1

\* a last line without newline is returned
C6_WitnessUnterminated ==
    /\ s_called
    /\ contents # <<>>
    /\ contents[Len(contents)] # LF
    /\ Len(lines(contents)) = 2
    /\ Len(s_res) = 1
    /\ s_res[1][1] = 1

\* C7: as the unit tests assert, both functions pair a matching line with
\* its 0-based index (second line: 1, first line: 0, fourth line: 3), and
\* "Duct tape." is not returned by search for "duct" but is returned by
\* search_case_insensitive.
C7_UnitTests ==
    LET safe  == SubSeq(TestContentsSensitive, 7, 29)
        duct  == SubSeq(TestContentsSensitive, 43, 52)
        rust  == SubSeq(TestContentsInsensitive, 1, 5)
        trust == SubSeq(TestContentsInsensitive, 43, 51)
    IN
    /\ (s_called /\ <<query, contents>>
                       = <<TestQuerySensitive, TestContentsSensitive>>)
          => /\ s_res = << <<1, safe>> >>
             /\ <<3, duct>> \notin Pairs(s_res)
    /\ (ci_called /\ <<query, contents>>
                       = <<TestQuerySensitive, TestContentsSensitive>>)
          => <<3, duct>> \in Pairs(ci_res)
    /\ (ci_called /\ <<query, contents>>
                       = <<TestQueryInsensitive, TestContentsInsensitive>>)
          => ci_res = << <<0, rust>>, <<3, trust>> >>
    /\ s_called => ZeroBased(s_res, lines(contents))
    /\ ci_called => ZeroBased(ci_res, lines(contents))

C7_Witness ==
    /\ s_called
    /\ ci_called
    /\ query = TestQuerySensitive
    /\ contents = TestContentsSensitive
    /\ Len(ci_res) = 2

C7_WitnessInsensitive ==
    /\ ci_called
    /\ query = TestQueryInsensitive
    /\ contents = TestContentsInsensitive
    /\ Len(ci_res) = 2

----------------------------------------------------------------------------
(* Properties of the binary (checked under Spec) *)

\* reading config.path fails in the file system of this run
ReadFails == config.path # PathF \/ ~fs.ok

\* C8: when the query or the path argument is missing, Config::build
\* returns an error and no Config; the program writes one message to the
\* error stream, exits non-zero, and never starts: the file is not read, no
\* search runs, nothing is written to standard output.
C8_UsageError ==
    (Len(args) < 3) =>
        /\ pc \in {"build", "exited"}
        /\ config = NoConfig
        /\ ~file_read
        /\ called = "none"
        /\ res = <<>>
        /\ run_result.kind = "pending"
        /\ stdout = <<>>
        /\ (pc = "build") => (stderr = <<>> /\ exit_code = -1)
        /\ (pc = "exited") =>
              /\ exit_code > 0
              /\ Len(stderr) = 1
              /\ stderr[1].fmt = "{}"
              /\ stderr[1].err = (IF Len(args) < 2 THEN "mg: missing query"
                                  ELSE "mg: missing text to query")

C8_Witness ==
    /\ Len(args) = 2
    /\ pc = "exited"
    /\ exit_code = 1
    /\ stderr # <<>>

\* C9: when reading the file fails, run returns an error, which is not the
\* successful empty result: no search is attempted, nothing is printed to
\* standard output, main reports the path with the cause on the error stream
\* and exits non-zero; a readable file without a matching line gives
\* success, no output and exit status 0.
C9_ReadError ==
    /\ (file_read /\ ReadFails) =>
          /\ run_result.kind = "Err"
          /\ pc \in {"run_err", "exited"}
          /\ called = "none"
          /\ res = <<>>
          /\ stdout = <<>>
          /\ (pc = "exited") =>
                /\ exit_code > 0
                /\ stderr = << [fmt |-> "mg: {}: {}",
                                path |-> args[3],
                                err |-> IF args[3] = PathF THEN fs.cause
                                        ELSE "NotFound"] >>
    /\ (pc = "exited" /\ file_read /\ ~ReadFails /\ res = <<>>) =>
          /\ run_result.kind = "Ok"
          /\ called # "none"
          /\ stdout = <<>>
          /\ stderr = <<>>
          /\ exit_code = 0

C9_Witness ==
    /\ pc = "exited"
    /\ file_read
    /\ config.path = PathF
    /\ ~fs.ok
    /\ fs.cause = "PermissionDenied"
    /\ exit_code = 1

C9_WitnessNoMatch ==
    /\ pc = "exited"
    /\ file_read
    /\ fs.ok
    /\ fs.text # <<>>
    /\ called = "search"
    /\ res = <<>>
    /\ exit_code = 0

\* C10: Config.ignore_case is true exactly when IGNORE_CASE is present with
\* the value "1"; run calls search_case_insensitive iff ignore_case is true
\* and search otherwise.
C10_IgnoreCase ==
    (Len(args) >= 3 /\ pc # "build") =>
        /\ config.ignore_case <=> (/\ env_IGNORE_CASE.kind = "Ok"
                                   /\ env_IGNORE_CASE.val = <<49>>)
        /\ (called # "none") =>
              /\ (called = "search_case_insensitive") <=> config.ignore_case
              /\ (called = "search") <=> ~config.ignore_case
              /\ res = (IF config.ignore_case
                        THEN search_case_insensitive(args[2], file_text)
                        ELSE search(args[2], file_text))

C10_Witness ==
    /\ called = "search_case_insensitive"
    /\ env_IGNORE_CASE.val = One
    /\ res # search(config.query, file_text)

C10_WitnessOtherValue ==
    /\ called = "search"
    /\ env_IGNORE_CASE.kind = "Ok"
    /\ env_IGNORE_CASE.val = <<49, 49>>
    /\ res # search_case_insensitive(config.query, file_text)

\* the number written by a sequence of decimal digits
RECURSIVE DecimalValue(_)
DecimalValue(ds) ==
    IF ds = <<>> THEN 0
    ELSE 10 * DecimalValue(SubSeq(ds, 1, Len(ds) - 1)) + (ds[Len(ds)] - 48)

\* out is "<n>:<line>": n in decimal without leading zero, a colon, line
IsNumberedLine(out, n, line) ==
    LET d == Len(out) - Len(line) - 1 IN
    /\ d >= 1
    /\ \A i \in 1..d : out[i] \in 48..57
    /\ (d > 1) => (out[1] # 48)
    /\ DecimalValue(SubSeq(out, 1, d)) = n
    /\ out[d + 1] = 58
    /\ SubSeq(out, d + 2, Len(out)) = line

\* C11: after a successful read, run prints one line per search result, in
\* result order, none skipped or repeated; the k-th printed line is
\* "<n>:<text>" with n the 1-based position in the file of the k-th result
\* (its 0-based index + 1) and text the original text of that line.
C11_PrintsResults ==
    /\ (called = "none") => (stdout = <<>>)
    /\ (called # "none") =>
          LET ls == lines(file_text) IN
          /\ Len(stdout) = printed
          /\ printed <= Len(res)
          /\ (pc \in {"returned", "exited"}) => (Len(stdout) = Len(res))
          /\ \A k \in 1..Len(stdout) :
                /\ res[k][1] + 1 \in 1..Len(ls)
                /\ IsNumberedLine(stdout[k], res[k][1] + 1, ls[res[k][1] + 1])

\* all eleven lines of the long file printed for the empty query under
\* ignore_case: the last one is "11:a"
C11_Witness ==
    /\ pc = "exited"
    /\ exit_code = 0
    /\ file_text = LongFile
    /\ called = "search_case_insensitive"
    /\ Len(stdout) = 11
    /\ stdout[1] = <<49, 58>>
    /\ stdout[11] = <<49, 49, 58, LowerA>>

\* only the matching line of a file is printed, under its own number, with
\* its original (upper-case) text
C11_WitnessOriginalText ==
    /\ pc = "exited"
    /\ called = "search_case_insensitive"
    /\ config.query = <<LowerA>>
    /\ stdout = << <<50, 58, UpperA>> >>

====
